---- MODULE Spec2Model ----
(***************************************************************************)
(* Cerina Protocol Foundry backend: the checkpoint store, the sequential   *)
(* executor (FallbackGraph), the LangGraph adapter (LangGraphSDKWrapper),  *)
(* the HTTP handlers that drive them and the SSE progress feed.            *)
(*                                                                         *)
(* Every handler invocation is a call with its own program counter; calls  *)
(* of different worker processes interleave at the granularity of one      *)
(* store access (a load or a save together with the in-memory work that    *)
(* precedes it).  The wall clock that stamps checkpoints advances on its   *)
(* own: two saves may read the same clock value.  Timestamps are only      *)
(* ever compared among the rows of one run (both queries filter on         *)
(* run_id), so a timestamp is kept as its rank among the run's rows.       *)
(*                                                                         *)
(* Spec is the application with FallbackGraph bound and one worker         *)
(* process, SpecSdk the same with a LangGraph graph found at import time,  *)
(* SpecFeed the application with two worker processes, one of them         *)
(* holding a consumer's progress feed.                                     *)
(***************************************************************************)
EXTENDS Integers, Sequences, FiniteSets, TLC

\* ---------------------------------------------------------------- bounds
MaxCalls == 2    \* handler / orchestrator invocations begun
MaxFeedCalls == 1  \* the same, while a consumer holds a progress feed
MaxTies == 1     \* saves that read the clock value an earlier save of the run read
MaxEvents == 4   \* events one feed emits before its consumer disconnects
MaxProbeCalls == 1  \* invocations begun, per installed library examined
MaxRaceCalls == 2   \* invocations begun in a deployment of two worker processes

\* ------------------------------------------------------------ value sets
Absent == "<absent>"      \* a key the dict does not hold
None == "None"            \* Python None / JSON null
Intents == {"sleep", "worry"}
Texts == {"t1", "t2"}     \* texts the draft LLM call may return
LLMText == "llm"          \* text of an LLM call whose value nothing reads
EditedText == "edited"    \* the "text" of an approve payload that carries one
UnknownRun == 0           \* a run id no start_run ever returned
RunIds == 0..(2 * MaxCalls + 1)  \* a start_run call draws at most two
Workers == {1, 2}         \* worker processes a deployment may run

VARIABLES
  store,      \* the runcheckpoint table, in insertion order
  nextRun,    \* the next run id uuid4() hands out
  sdk,        \* what try_build_langgraph_graph found at import time
  pool,       \* worker processes of this deployment (uvicorn --workers)
  calls,      \* per worker: the invocation it serves, or served last
  quota,      \* invocations that may still begin
  ties,       \* saves so far that read an already used clock value
  drafted,    \* per run: successful executions of draftsman_node
  feed        \* the event_stream generator of one consumer

vars == <<store, nextRun, sdk, pool, calls, quota, ties, drafted, feed>>

\* ----------------------------------------------------------------- State
\* The dict start_run builds; with_score is FALSE for the adapter's dict,
\* which has no "safety_score" key.
InitialState(run_id, intent, with_score) ==
  [run_id |-> run_id, intent_text |-> intent, status |-> "running",
   draft_versions |-> <<>>, iteration_count |-> 0, current_draft_text |-> "",
   safety_flags |-> <<>>, safety_score |-> IF with_score THEN None ELSE Absent,
   safety_check_text |-> Absent, critic_text |-> Absent,
   proposed_revision |-> Absent, approved_text |-> Absent,
   final_summary |-> Absent]

\* The empty dict {}.
EmptyDict ==
  [run_id |-> UnknownRun, intent_text |-> Absent, status |-> Absent,
   draft_versions |-> <<>>, iteration_count |-> 0, current_draft_text |-> Absent,
   safety_flags |-> <<>>, safety_score |-> Absent,
   safety_check_text |-> Absent, critic_text |-> Absent,
   proposed_revision |-> Absent, approved_text |-> Absent,
   final_summary |-> Absent]

\* --------------------------------------------------------- node functions
draftsman_node(state, out) ==
  [state EXCEPT !.current_draft_text = out,
                !.draft_versions = Append(@, [version |-> state.iteration_count + 1,
                                              text |-> out]),
                !.iteration_count = @ + 1]

safety_guardian_node(state, out) ==
  [state EXCEPT !.safety_check_text = out]

clinical_critic_node(state, out, rev) ==
  [state EXCEPT !.critic_text = out, !.proposed_revision = rev]

\* supervisor_node without its status assignment.
supervisor_keeps_status(state) == state

supervisor_node(state) ==
  [state EXCEPT !.status = "paused_for_human"]

nodes == <<"Draftsman", "SafetyGuardian", "ClinicalCritic", "supervisor">>

NodeNames == {nodes[i] : i \in 1..Len(nodes)}

\* Where a node can raise: 0 = nowhere, k = in its k-th call_llm.
FailPoints(name) ==
  CASE name = "Draftsman" -> {0, 1}
    [] name = "SafetyGuardian" -> {0, 1}
    [] name = "ClinicalCritic" -> {0, 1, 2}
    [] OTHER -> {0}

\* fn(state) for the node called name: the dict as the call leaves it (nodes
\* mutate it in place, so a raise leaves what was written before it) and
\* whether the call raised.
RunNode(name, state, out, fail) ==
  CASE name = "Draftsman" ->
         IF fail = 0 THEN [raised |-> FALSE, state |-> draftsman_node(state, out)]
                     ELSE [raised |-> TRUE, state |-> state]
    [] name = "SafetyGuardian" ->
         IF fail = 0 THEN [raised |-> FALSE, state |-> safety_guardian_node(state, LLMText)]
                     ELSE [raised |-> TRUE, state |-> state]
    [] name = "ClinicalCritic" ->
         IF fail = 0 THEN [raised |-> FALSE,
                           state |-> clinical_critic_node(state, LLMText, LLMText)]
         ELSE IF fail = 1 THEN [raised |-> TRUE, state |-> state]
         ELSE [raised |-> TRUE, state |-> [state EXCEPT !.critic_text = LLMText]]
    [] OTHER -> [raised |-> FALSE, state |-> supervisor_node(state)]


\* What the registered graph returns when it is run on a dict: the four
\* registered node functions applied in registration order.
EngineResult(state) ==
  supervisor_node(
    clinical_critic_node(
      safety_guardian_node(draftsman_node(state, "t1"), LLMText),
      LLMText, LLMText))

\* ------------------------------------------------------- checkpoint store
RowsOf(st, run_id) == {i \in 1..Len(st) : st[i].run_id = run_id}

\* The greatest timestamp among the run's rows (0: the run has none).
MaxStamp(st, run_id) ==
  IF RowsOf(st, run_id) = {} THEN 0
  ELSE CHOOSE t \in {st[i].timestamp : i \in RowsOf(st, run_id)} :
         \A i \in RowsOf(st, run_id) : st[i].timestamp <= t

\* datetime.utcnow() at the construction of a row: the clock value the
\* run's latest row read (tie) or a later one.
utcnow(st, run_id, tie) ==
  IF tie /\ RowsOf(st, run_id) # {} THEN MaxStamp(st, run_id)
  ELSE MaxStamp(st, run_id) + 1

\* A save that rewrites the run's newest row when the run has one.
save_checkpoint_upsert(st, run_id, agent_name, state, note, tie) ==
  IF RowsOf(st, run_id) = {}
  THEN Append(st, [id |-> Len(st) + 1, run_id |-> run_id, agent_name |-> agent_name,
                   timestamp |-> 1, state_snapshot |-> state, note |-> note])
  ELSE LET last == CHOOSE i \in RowsOf(st, run_id) :
                     \A j \in RowsOf(st, run_id) : j <= i
       IN [st EXCEPT ![last] = [@ EXCEPT !.agent_name = agent_name,
                                         !.state_snapshot = state,
                                         !.note = note]]

\* A save that files every row under the first run id handed out.
save_checkpoint_one_run(st, run_id, agent_name, state, note, tie) ==
  Append(st, [id |-> Len(st) + 1, run_id |-> 1, agent_name |-> agent_name,
              timestamp |-> utcnow(st, 1, tie),
              state_snapshot |-> state, note |-> note])

\* save_checkpoint: one row appended, its id fresh (the row's position
\* stands for the uuid4), its state_snapshot the dict as serialised at commit.
save_checkpoint(st, run_id, agent_name, state, note, tie) ==
  Append(st, [id |-> Len(st) + 1, run_id |-> run_id, agent_name |-> agent_name,
              timestamp |-> utcnow(st, run_id, tie),
              state_snapshot |-> state, note |-> note])

\* The first row of "ORDER BY timestamp ASC".
load_first_checkpoint(st, run_id) ==
  IF RowsOf(st, run_id) = {} THEN {0}
  ELSE {i \in RowsOf(st, run_id) :
          \A j \in RowsOf(st, run_id) : st[i].timestamp <= st[j].timestamp}

\* load_last_checkpoint: the first row of "ORDER BY timestamp DESC".  Rows
\* with equal timestamps come in an order SQL leaves open, so every row of
\* the run with the greatest timestamp can be the one returned; 0 is None.
load_last_checkpoint(st, run_id) ==
  IF RowsOf(st, run_id) = {} THEN {0}
  ELSE {i \in RowsOf(st, run_id) : st[i].timestamp = MaxStamp(st, run_id)}

\* The orders "ORDER BY timestamp ASC" may give the rows of S: at every
\* position any of the remaining rows with the least timestamp.
RECURSIVE AscendingOrders(_, _)
AscendingOrders(st, S) ==
  IF S = {} THEN {<<>>}
  ELSE UNION {{<<i>> \o rest : rest \in AscendingOrders(st, S \ {i})} :
                i \in {k \in S : \A j \in S : st[k].timestamp <= st[j].timestamp}}

\* list_checkpoints: every list the query may return.
list_checkpoints(st, run_id) == AscendingOrders(st, RowsOf(st, run_id))

\* ------------------------------------------------------------------ feed
\* The generator of one consumer: last_seen and the events yielded so far
\* (each the id of the row it carries).  log, polled and spaced record the
\* run's rows saved since the feed opened, whether the generator has polled
\* since the last of them, and whether every one of them was saved after a
\* poll that followed the previous save and at a later clock value.
NoFeed ==
  [open |-> FALSE, worker |-> 0, run |-> UnknownRun, base |-> 0, last_seen |-> 0,
   emitted |-> <<>>, log |-> <<>>, polled |-> TRUE, spaced |-> TRUE]

\* ---------------------------------------------------------- orchestrator
\* What the interpreter offers the probe: whether a candidate module can be
\* imported, which API shape it has, whether the constructor of the class
\* raises, how many of the registrations the graph accepts before one
\* fails, and whether the graph has a "resume" attribute.
LibraryEnvs ==
  [importable : BOOLEAN,
   shape : {"none", "graph", "task", "builder"},
   ctor_raises : BOOLEAN,
   accepts : 0..Len(nodes),
   has_resume : BOOLEAN]

\* try_build_langgraph_graph: the add method of the graph it built, or None;
\* an import or a constructor that raises is skipped.
try_build_langgraph_graph(env) ==
  IF ~env.importable THEN None
  ELSE IF env.shape = "none" THEN None
  ELSE IF env.ctor_raises THEN None
  ELSE IF env.shape = "task" THEN "add_task"
  ELSE "add_node"

\* register_node for the k-th node: FALSE when the add method raises in
\* every calling convention tried.
register_node(env, k) == k <= env.accepts

\* The import-time probe and registrations in the given environment.
ProbeOf(env) ==
  LET found == try_build_langgraph_graph(env) # None IN
  [found |-> found,
   registered |-> found /\ \A k \in 1..Len(nodes) : register_node(env, k),
   has_resume |-> found /\ env.has_resume,
   env |-> env]

\* An orchestrator that skips the check of the registrations.
create_orchestrator_unchecked(probe) ==
  IF ~probe.found THEN "FallbackGraph" ELSE "LangGraphSDKWrapper"

\* create_true_or_fallback_orchestrator: the adapter only when the probe
\* found a graph and all four registrations succeeded.
create_true_or_fallback_orchestrator(probe) ==
  IF ~probe.found THEN "FallbackGraph"
  ELSE IF ~probe.registered THEN "FallbackGraph"
  ELSE "LangGraphSDKWrapper"

Orchestrator == create_true_or_fallback_orchestrator(sdk)

\* ------------------------------------------------------------ invocations
\* engine is how the call's engine method ended, "none" while none was called.
NoCall ==
  [op |-> "none", pc |-> "idle", mode |-> "none", run |-> UnknownRun,
   state |-> EmptyDict, cp |-> 0, idx |-> 0,
   executed |-> <<>>, appended |-> <<>>, outcome |-> "none",
   result |-> EmptyDict, sdk_run |-> UnknownRun, human |-> 0,
   engine |-> "none"]

Free(w) == calls[w].pc \in {"idle", "done"}

\* A request goes to the first worker process that neither serves a call nor
\* holds a feed.
Idle(w) ==
  LET busy(v) == ~Free(v) \/ (feed.open /\ feed.worker = v) IN
  /\ w <= pool
  /\ ~busy(w)
  /\ \A v \in Workers : v < w => busy(v)

NewCall(w) ==
  /\ quota > 0
  /\ Idle(w)

\* The save of one row by the action being taken.
Save(run_id, agent_name, state, note, tie) ==
  /\ tie => (ties < MaxTies /\ RowsOf(store, run_id) # {})
  /\ store' = save_checkpoint(store, run_id, agent_name, state, note, tie)
  /\ ties' = IF tie THEN ties + 1 ELSE ties
  /\ feed' = IF feed.open /\ feed.run = run_id
             THEN [feed EXCEPT !.log = Append(@, Len(store) + 1),
                               !.polled = FALSE,
                               !.spaced = @ /\ feed.polled /\ ~tie]
             ELSE feed

\* FallbackGraph.start_run up to its loop: fresh run id, initial dict, the
\* "starter" checkpoint.
FallbackStart(w, call, intent) ==
  /\ LET state == InitialState(nextRun, intent, TRUE) IN
     /\ Save(nextRun, "starter", state, <<"run started">>, FALSE)
     /\ calls' = [calls EXCEPT ![w] =
                    [call EXCEPT !.pc = "nodes", !.mode = "start", !.run = nextRun,
                                 !.state = state, !.idx = 1,
                                 !.executed = <<>>,
                                 !.appended = <<Len(store) + 1>>,
                                 !.outcome = "running"]]
     /\ nextRun' = nextRun + 1

\* POST /start, FallbackGraph bound.
StartFallback(w, intent) ==
  /\ NewCall(w)
  /\ Orchestrator = "FallbackGraph"
  /\ FallbackStart(w, [NoCall EXCEPT !.op = "start_run"], intent)
  /\ quota' = quota - 1
  /\ UNCHANGED <<sdk, pool, drafted>>

\* POST /start, LangGraphSDKWrapper bound: run id, dict, "starter" row.
StartSdk(w, intent) ==
  /\ NewCall(w)
  /\ Orchestrator = "LangGraphSDKWrapper"
  /\ LET state == InitialState(nextRun, intent, FALSE) IN
     /\ Save(nextRun, "starter", state, <<"run started (langgraph-sdk)">>, FALSE)
     /\ calls' = [calls EXCEPT ![w] =
                    [NoCall EXCEPT !.op = "start_run", !.pc = "sdk_run",
                                   !.mode = "sdk", !.run = nextRun,
                                   !.sdk_run = nextRun, !.state = state,
                                   !.appended = <<Len(store) + 1>>,
                                   !.outcome = "running"]]
  /\ nextRun' = nextRun + 1
  /\ quota' = quota - 1
  /\ UNCHANGED <<sdk, pool, drafted>>

\* POST /start without an intent: HTTP 400 before the orchestrator is called.
StartRejected(w, intent) ==
  /\ NewCall(w)
  /\ intent = ""
  /\ UNCHANGED vars

\* LangGraphSDKWrapper.start_run after the starter row: the runner is
\* called; a dict it returns is saved; any exception delegates the call to
\* FallbackGraph().start_run(intent).
SdkRun(w, res, tie) ==
  LET call == calls[w] IN
  /\ call.pc = "sdk_run"
  /\ \/ /\ res = "raise"
        /\ ~tie
        /\ FallbackStart(w, [call EXCEPT !.engine = res], call.state.intent_text)
        /\ UNCHANGED drafted
     \/ /\ res = "dict"
        /\ Save(call.run, "langgraph_run", EngineResult(call.state),
                <<"graph run complete">>, tie)
        /\ calls' = [calls EXCEPT ![w] =
                       [call EXCEPT !.pc = "done", !.outcome = "returned",
                                    !.engine = res,
                                    !.state = EngineResult(call.state),
                                    !.appended = Append(@, Len(store) + 1)]]
        /\ drafted' = [drafted EXCEPT ![call.run] = @ + 1]
        /\ UNCHANGED nextRun
     \/ /\ res = "other"
        /\ ~tie
        /\ calls' = [calls EXCEPT ![w] =
                       [call EXCEPT !.pc = "done", !.outcome = "returned",
                                    !.engine = res]]
        /\ UNCHANGED <<store, ties, feed, nextRun, drafted>>
  /\ UNCHANGED <<sdk, pool, quota>>

\* The note of the row one loop iteration saves.
NodeNote(mode, name, raised) ==
  IF raised THEN <<name, "error">>
  ELSE IF mode = "start" THEN <<name, "completed">>
  ELSE <<name, "resumed/completed">>

\* A loop that saves a row only for a node that returned.
EmitsOnSuccessOnly(mode, raised) == ~raised

\* Whether the loop saves a row for an iteration: start_run wraps fn and the
\* save in try / except and saves in the handler too; resume_run has no
\* handler.
EmitsCheckpoint(mode, raised) == ~raised \/ mode = "start"

\* Whether the loop goes on to the next node after an iteration.
LoopContinues(mode, raised) == ~raised

\* One iteration of the loop over self.nodes, of start_run or resume_run.
NodeStep(w, out, fail, tie) ==
  LET call == calls[w]
      name == nodes[call.idx]
      r == RunNode(name, call.state, out, fail)
      emits == EmitsCheckpoint(call.mode, r.raised)
      goon == LoopContinues(call.mode, r.raised)
      last == call.idx = Len(nodes)
  IN
  /\ call.pc = "nodes"
  /\ fail \in FailPoints(name)
  /\ name # "Draftsman" => out = "t1"
  /\ IF emits
     THEN Save(call.run, name, r.state, NodeNote(call.mode, name, r.raised), tie)
     ELSE ~tie /\ UNCHANGED <<store, ties, feed>>
  /\ calls' = [calls EXCEPT ![w] =
       [call EXCEPT
          !.state = r.state,
          !.executed = Append(@, name),
          !.appended = IF emits THEN Append(@, Len(store) + 1) ELSE @,
          !.idx = @ + 1,
          !.pc = IF ~goon \/ last THEN "done" ELSE "nodes",
          !.outcome = IF ~goon THEN "raised"
                      ELSE IF last THEN "returned" ELSE @,
          !.result = IF goon /\ last /\ call.mode = "resume" THEN r.state ELSE @]]
  /\ drafted' = IF name = "Draftsman" /\ ~r.raised
                THEN [drafted EXCEPT ![call.run] = @ + 1] ELSE drafted
  /\ UNCHANGED <<nextRun, sdk, pool, quota>>

\* A resume point at the named node itself (start_idx = idx).
StartIdxAtNamed(last) ==
  IF \E i \in 1..Len(nodes) : nodes[i] = last
  THEN CHOOSE i \in 1..Len(nodes) : nodes[i] = last
  ELSE 1

\* A resume point past the last node for a name that is none of self.nodes.
StartIdxUnknownAtEnd(last) ==
  IF \E i \in 1..Len(nodes) : nodes[i] = last
  THEN (CHOOSE i \in 1..Len(nodes) : nodes[i] = last) + 1
  ELSE Len(nodes) + 1

\* A resume point that never moves (start_idx stays 0).
StartIdxFirst(last) == 1

\* The resume point: the node after the one the checkpoint is named after,
\* the first node when the name is none of self.nodes.
StartIdx(last) ==
  IF \E i \in 1..Len(nodes) : nodes[i] = last
  THEN (CHOOSE i \in 1..Len(nodes) : nodes[i] = last) + 1
  ELSE 1

\* FallbackGraph.resume_run up to its loop: load, "run not found" or the
\* resume point.  With no node left the loop body never runs and the
\* loaded dict is returned.
FallbackResume(w, call, cpid) ==
  /\ cpid \in load_last_checkpoint(store, call.run)
  /\ calls' = [calls EXCEPT ![w] =
       IF cpid = 0
       THEN [call EXCEPT !.mode = "resume", !.cp = 0, !.pc = "done",
                         !.executed = <<>>, !.appended = <<>>,
                         !.outcome = "run not found"]
       ELSE LET state == store[cpid].state_snapshot
                start_idx == StartIdx(store[cpid].agent_name)
                over == start_idx > Len(nodes)
            IN [call EXCEPT !.mode = "resume", !.cp = cpid, !.state = state,
                            !.idx = start_idx,
                            !.executed = <<>>, !.appended = <<>>,
                            !.pc = IF over THEN "done" ELSE "nodes",
                            !.outcome = IF over THEN "returned" ELSE "running",
                            !.result = IF over THEN state ELSE @]]

\* Orchestrator.resume_run(run_id) up to its first slow step.  The adapter
\* loads the latest row (an empty dict when there is none) and, when the
\* graph has a "resume" attribute, calls it; otherwise it falls through to
\* FallbackGraph().resume_run, whose own load is the one that counts.
OrchestratorResume(w, call, cpid) ==
  IF Orchestrator = "LangGraphSDKWrapper" /\ sdk.has_resume
  THEN /\ cpid \in load_last_checkpoint(store, call.run)
       /\ calls' = [calls EXCEPT ![w] =
            [call EXCEPT !.mode = "sdk", !.cp = cpid, !.pc = "sdk_call",
                         !.state = IF cpid = 0 THEN EmptyDict
                                   ELSE store[cpid].state_snapshot,
                         !.executed = <<>>, !.appended = <<>>,
                         !.outcome = "running"]]
  ELSE FallbackResume(w, call, cpid)

\* A run id a caller can name: never one whose start_run has not returned.
Disclosed(r) ==
  \/ r = UnknownRun
  \/ /\ r < nextRun
     /\ \A w \in Workers :
          calls[w].op = "start_run" /\ calls[w].pc # "done"
            => r \notin {calls[w].run, calls[w].sdk_run}

\* Orchestrator.resume_run(run_id), called directly.
ResumeRun(w, r, cpid) ==
  /\ NewCall(w)
  /\ Disclosed(r)
  /\ OrchestratorResume(w, [NoCall EXCEPT !.op = "resume_run", !.run = r], cpid)
  /\ quota' = quota - 1
  /\ UNCHANGED <<store, nextRun, sdk, pool, ties, drafted, feed>>

\* LangGraphSDKWrapper.resume_run at self.graph.resume(state): a dict it
\* returns is saved and returned; anything else, or an exception, falls
\* through to FallbackGraph().resume_run(run_id).
SdkCall(w, res, cpid, tie) ==
  LET call == calls[w] IN
  /\ call.pc = "sdk_call"
  /\ \/ /\ res = "dict"
        /\ cpid = 0
        /\ Save(call.run, "langgraph_resume", EngineResult(call.state),
                <<"graph resumed">>, tie)
        /\ calls' = [calls EXCEPT ![w] =
                       [call EXCEPT !.pc = "done", !.outcome = "returned",
                                    !.engine = res,
                                    !.state = EngineResult(call.state),
                                    !.result = EngineResult(call.state),
                                    !.appended = Append(@, Len(store) + 1)]]
        /\ drafted' = [drafted EXCEPT ![call.run] = @ + 1]
     \/ /\ res = "other"
        /\ ~tie
        /\ FallbackResume(w, [call EXCEPT !.engine = res], cpid)
        /\ UNCHANGED <<store, ties, feed, drafted>>
     \/ /\ res = "raise"
        /\ ~tie
        /\ FallbackResume(w, [call EXCEPT !.engine = res], cpid)
        /\ UNCHANGED <<store, ties, feed, drafted>>
  /\ UNCHANGED <<nextRun, sdk, pool, quota>>

\* POST /approve/{run_id} up to its save: 404 without a row, else the
\* loaded dict with approved_text and status set.
Approve(w, r, text, cpid) ==
  /\ NewCall(w)
  /\ Disclosed(r)
  /\ cpid \in load_last_checkpoint(store, r)
  /\ cpid # 0
  /\ calls' = [calls EXCEPT ![w] =
            LET snap == store[cpid].state_snapshot IN
            [NoCall EXCEPT !.op = "approve", !.run = r, !.pc = "approve_save",
                           !.outcome = "running",
                           !.state = [snap EXCEPT
                              !.approved_text =
                                 IF text # Absent THEN text
                                 ELSE IF snap.current_draft_text = Absent THEN None
                                 ELSE snap.current_draft_text,
                              !.status = "approved_by_human"]]]
  /\ quota' = quota - 1
  /\ UNCHANGED <<store, nextRun, sdk, pool, ties, drafted, feed>>

\* approve: save_checkpoint(run_id, "human", state, "approved by human").
ApproveSave(w, tie) ==
  LET call == calls[w] IN
  /\ call.pc = "approve_save"
  /\ Save(call.run, "human", call.state, <<"approved by human">>, tie)
  /\ calls' = [calls EXCEPT ![w] =
                 [call EXCEPT !.pc = "resume", !.human = Len(store) + 1]]
  /\ UNCHANGED <<nextRun, sdk, pool, quota, drafted>>

\* approve: final_state = orchestrator.resume_run(run_id).
ApproveResume(w, cpid) ==
  /\ calls[w].pc = "resume"
  /\ OrchestratorResume(w, calls[w], cpid)
  /\ UNCHANGED <<store, nextRun, sdk, pool, quota, ties, drafted, feed>>

\* GET /summary/{run_id} up to its LLM call: 404 without a row, the stored
\* summary when the dict has one.
Summary(w, r, cpid) ==
  /\ NewCall(w)
  /\ Disclosed(r)
  /\ cpid \in load_last_checkpoint(store, r)
  /\ cpid # 0
  /\ calls' = [calls EXCEPT ![w] =
            LET snap == store[cpid].state_snapshot IN
            IF snap.final_summary # Absent
            THEN [NoCall EXCEPT !.op = "summary", !.run = r, !.pc = "done",
                                !.outcome = "returned", !.state = snap]
            ELSE [NoCall EXCEPT !.op = "summary", !.run = r,
                                !.pc = "summary_save", !.outcome = "running",
                                !.state = snap]]
  /\ quota' = quota - 1
  /\ UNCHANGED <<store, nextRun, sdk, pool, ties, drafted, feed>>

\* summary: the LLM call (an exception becomes the summary text), then
\* save_checkpoint(run_id, "summary_agent", state, "final summary generated").
SummarySave(w, raised, tie) ==
  LET call == calls[w]
      state == [call.state EXCEPT !.final_summary =
                  IF raised THEN "[error generating summary]" ELSE "summary"]
  IN
  /\ call.pc = "summary_save"
  /\ Save(call.run, "summary_agent", state, <<"final summary generated">>, tie)
  /\ calls' = [calls EXCEPT ![w] =
                 [call EXCEPT !.pc = "done", !.outcome = "returned",
                              !.state = state]]
  /\ UNCHANGED <<nextRun, sdk, pool, quota, drafted>>

\* GET /status, POST /approve or GET /summary of a run without a row:
\* HTTP 404 and nothing else.
NotFound(w, r) ==
  /\ NewCall(w)
  /\ Disclosed(r)
  /\ load_last_checkpoint(store, r) = {0}
  /\ UNCHANGED vars

\* One turn of the while loop of event_stream: load, compare with last_seen,
\* yield.  The consumer disconnects on receiving its MaxEvents-th event.
Poll(f, cpid) ==
  IF cpid # 0 /\ cpid # f.last_seen
  THEN [f EXCEPT !.last_seen = cpid, !.emitted = Append(@, cpid), !.polled = TRUE,
                 !.open = Len(f.emitted) + 1 < MaxEvents]
  ELSE [f EXCEPT !.polled = TRUE]

\* GET /stream/{run_id}: the generator is created and runs to its first
\* sleep, which is one turn of the loop.
FeedOpen(w, r, cpid) ==
  /\ ~feed.open
  /\ feed.emitted = <<>>
  /\ Idle(w)
  /\ Disclosed(r)
  /\ r # UnknownRun
  /\ cpid \in load_last_checkpoint(store, r)
  /\ feed' = Poll([NoFeed EXCEPT !.open = TRUE, !.worker = w, !.run = r,
                                 !.base = Len(store)], cpid)
  /\ UNCHANGED <<store, nextRun, sdk, pool, calls, quota, ties, drafted>>

\* One turn of the while loop of event_stream after a sleep.
FeedPoll(cpid) ==
  /\ feed.open
  /\ cpid \in load_last_checkpoint(store, feed.run)
  /\ feed' = Poll(feed, cpid)
  /\ UNCHANGED <<store, nextRun, sdk, pool, calls, quota, ties, drafted>>

\* -------------------------------------------------------- specifications
\* The table a process finds at start-up when an earlier process served one
\* start_run("sleep") to its end: the five rows of that call.
PausedRows ==
  LET s0 == InitialState(1, "sleep", TRUE)
      s1 == draftsman_node(s0, "t1")
      s2 == safety_guardian_node(s1, LLMText)
      s3 == clinical_critic_node(s2, LLMText, LLMText)
      s4 == supervisor_node(s3)
      row(i, name, state, note) ==
        [id |-> i, run_id |-> 1, agent_name |-> name, timestamp |-> i,
         state_snapshot |-> state, note |-> note]
  IN <<row(1, "starter", s0, <<"run started">>),
       row(2, nodes[1], s1, <<nodes[1], "completed">>),
       row(3, nodes[2], s2, <<nodes[2], "completed">>),
       row(4, nodes[3], s3, <<nodes[3], "completed">>),
       row(5, nodes[4], s4, <<nodes[4], "completed">>)>>

NoProbe == [found |-> FALSE, registered |-> FALSE, has_resume |-> FALSE]

\* init_db() on an empty database, or on one an earlier process left.
InitWith(probes, workers, budget) ==
  /\ \/ store = <<>> /\ nextRun = 1 /\ drafted = [r \in RunIds |-> 0]
     \/ /\ store = PausedRows
        /\ nextRun = 2
        /\ drafted = [r \in RunIds |-> IF r = 1 THEN 1 ELSE 0]
  /\ sdk \in probes
  /\ pool = workers
  /\ calls = [w \in Workers |-> NoCall]
  /\ quota = budget
  /\ ties = 0
  /\ feed = NoFeed

Init == InitWith({NoProbe}, 1, MaxCalls)

Outcomes == {"raise", "dict", "other"}

Handlers ==
  \/ \E w \in Workers : StartRejected(w, "")
  \/ \E w \in Workers, out \in Texts, fail \in 0..2, tie \in BOOLEAN :
       NodeStep(w, out, fail, tie)
  \/ \E w \in Workers, r \in RunIds, cpid \in 0..Len(store) : ResumeRun(w, r, cpid)
  \/ \E w \in Workers, r \in RunIds, text \in {Absent, EditedText},
        cpid \in 0..Len(store) : Approve(w, r, text, cpid)
  \/ \E w \in Workers, tie \in BOOLEAN : ApproveSave(w, tie)
  \/ \E w \in Workers, cpid \in 0..Len(store) : ApproveResume(w, cpid)
  \/ \E w \in Workers, r \in RunIds, cpid \in 0..Len(store) : Summary(w, r, cpid)
  \/ \E w \in Workers, raised \in BOOLEAN, tie \in BOOLEAN : SummarySave(w, raised, tie)
  \/ \E w \in Workers, r \in RunIds : NotFound(w, r)

Next ==
  \/ Handlers
  \/ \E w \in Workers, intent \in Intents : StartFallback(w, intent)

Spec == Init /\ [][Next]_vars

\* A deployment in which try_build_langgraph_graph found a graph: with all
\* four registrations succeeding the adapter is bound, otherwise FallbackGraph.
SdkProbes ==
  {[found |-> TRUE, registered |-> reg, has_resume |-> res] :
     reg \in BOOLEAN, res \in BOOLEAN}

InitSdk == InitWith(SdkProbes, 1, MaxCalls)

NextSdk ==
  \/ Next
  \/ \E w \in Workers, intent \in Intents : StartSdk(w, intent)
  \/ \E w \in Workers, res \in Outcomes, tie \in BOOLEAN : SdkRun(w, res, tie)
  \/ \E w \in Workers, res \in Outcomes, cpid \in 0..Len(store), tie \in BOOLEAN :
       SdkCall(w, res, cpid, tie)

SpecSdk == InitSdk /\ [][NextSdk]_vars

\* Every deployment the probe may meet, each serving MaxProbeCalls calls.
InitProbe == InitWith({ProbeOf(env) : env \in LibraryEnvs}, 1, MaxProbeCalls)

SpecProbe == InitProbe /\ [][NextSdk]_vars

\* Two worker processes on an empty database: every call that overlaps
\* another works on a run of its own.
InitTwoRuns == InitWith({NoProbe}, 2, MaxRaceCalls) /\ store = <<>>

SpecTwoRuns == InitTwoRuns /\ [][Next]_vars

\* Two worker processes serving requests for the one run an earlier process
\* left paused.
InitOneRun == InitWith({NoProbe}, 2, MaxRaceCalls) /\ store = PausedRows

SpecOneRun == InitOneRun /\ [][Handlers]_vars

\* Two worker processes, one of which holds a consumer's progress feed while
\* the other serves the requests.
InitFeed == InitWith({NoProbe}, 2, MaxFeedCalls)

NextFeed ==
  \/ Next
  \/ \E w \in Workers, r \in RunIds, cpid \in 0..Len(store) : FeedOpen(w, r, cpid)
  \/ \E cpid \in 0..Len(store) : FeedPoll(cpid)

SpecFeed == InitFeed /\ [][NextFeed]_vars

\* ----------------------------------------------------------------- claims
\* The fixed stage sequence S1..Sn the claims speak of.
StageSequence == <<"Draftsman", "SafetyGuardian", "ClinicalCritic", "supervisor">>

StageNames == {StageSequence[i] : i \in 1..Len(StageSequence)}

StageIndex(name) == CHOOSE i \in 1..Len(StageSequence) : StageSequence[i] = name

Last(seq) == seq[Len(seq)]

\* The stage names of the rows with the given ids, in that order.
NamesOf(ids) == [k \in 1..Len(ids) |-> store[ids[k]].agent_name]

\* The rows were appended one after another, all under the run's id, and
\* the run gained no other row from the first of them to the last.
AppendedFor(ids, run_id) ==
  /\ \A k \in 1..Len(ids) : store[ids[k]].run_id = run_id
  /\ \A k \in 1..(Len(ids) - 1) : ids[k] < ids[k + 1]
  /\ ids # <<>> =>
       {i \in RowsOf(store, run_id) : ids[1] <= i /\ i <= Last(ids)}
         = {ids[k] : k \in 1..Len(ids)}

\* C1: a start_run call in which no stage raises has appended, when it
\* returns, exactly five rows under the run id it returns, named starter,
\* Draftsman, SafetyGuardian, ClinicalCritic, supervisor in that order, the
\* last with status paused_for_human; at every moment of a start_run call
\* the starter row is there and precedes one row per stage executed so far.
C1_StartRunFiveCheckpoints ==
  \A w \in Workers :
    LET call == calls[w] IN
    call.mode = "start" =>
      /\ Len(call.appended) = 1 + Len(call.executed)
      /\ store[call.appended[1]].agent_name = "starter"
      /\ store[call.appended[1]].state_snapshot.iteration_count = 0
      /\ AppendedFor(call.appended, call.run)
      /\ (call.pc = "done" /\ call.outcome = "returned") =>
           /\ NamesOf(call.appended) = <<"starter">> \o StageSequence
           /\ RowsOf(store, call.run) \cap 1..Last(call.appended)
                = {call.appended[k] : k \in 1..5}
           /\ store[Last(call.appended)].state_snapshot.status = "paused_for_human"

C1_Witness ==
  \E w \in Workers :
    /\ calls[w].mode = "start"
    /\ calls[w].pc = "done"
    /\ calls[w].outcome = "returned"
    /\ calls[w].state.intent_text = "worry"
    /\ Len(calls[w].appended) = 5

\* C2: when stage Si raises during start_run, the call has appended exactly
\* one row for that execution, named Si with the note "<Si> error: ...",
\* after the starter row and one completion row per earlier stage; the
\* exception reaches the caller and no stage after Si runs or is
\* checkpointed in the call.
C2_StartRunFailureCheckpoint ==
  \A w \in Workers :
    LET call == calls[w]
        k == Len(call.executed)
    IN
    (call.mode = "start" /\ call.outcome = "raised") =>
      /\ call.pc = "done"
      /\ k >= 1
      /\ call.executed = SubSeq(StageSequence, 1, k)
      /\ NamesOf(call.appended) = <<"starter">> \o call.executed
      /\ AppendedFor(call.appended, call.run)
      /\ store[Last(call.appended)].note = <<call.executed[k], "error">>
      /\ \A j \in 2..k : store[call.appended[j]].note
                           = <<call.executed[j - 1], "completed">>

C2_Witness ==
  \E w \in Workers :
    /\ calls[w].mode = "start"
    /\ calls[w].outcome = "raised"
    /\ calls[w].executed = <<"Draftsman", "SafetyGuardian", "ClinicalCritic">>
    /\ Len(calls[w].appended) = 4

\* C3: when a stage raises during resume_run, a failure row for that stage
\* (named after it, note "<Si> error: ...") has been appended to the run
\* by the time the exception reaches the caller.
C3_ResumeRunFailureCheckpoint ==
  \A w \in Workers :
    LET call == calls[w] IN
    (call.mode = "resume" /\ call.outcome = "raised") =>
      \E i \in RowsOf(store, call.run) :
        /\ i > call.cp
        /\ store[i].agent_name = Last(call.executed)
        /\ store[i].note = <<Last(call.executed), "error">>

\* C4: resume_run of a run id that has no row fails with "run not found"
\* and appends nothing, whichever orchestrator is bound.
C4_ResumeUnknownRunNotFound ==
  \A w \in Workers :
    LET call == calls[w] IN
    (call.op = "resume_run" /\ call.pc = "done" /\ call.cp = 0) =>
      /\ call.outcome = "run not found"
      /\ call.appended = <<>>
      /\ RowsOf(store, call.run) = {}

Before(i, run_id) ==
  IF \E j \in RowsOf(store, run_id) : j < i
  THEN CHOOSE j \in RowsOf(store, run_id) :
         j < i /\ \A k \in RowsOf(store, run_id) : k < i => k <= j
  ELSE 0

\* C6: when a human row with status approved_by_human is appended to a run
\* whose latest state was paused_for_human and resume_run is then called,
\* no stage executes and no stage row follows the human row; the returned
\* State has the draft_versions, iteration_count and current_draft_text of
\* the approval and its status is not paused_for_human again.
C6_ResumeAfterApprovalRunsNoStage ==
  \A w \in Workers :
    LET call == calls[w]
        approved == store[call.human].state_snapshot
        prev == Before(call.human, call.run)
    IN
    (/\ call.op = "approve"
     /\ call.mode = "resume"
     /\ prev # 0
     /\ store[prev].state_snapshot.status = "paused_for_human")
    => /\ call.executed = <<>>
       /\ call.appended = <<>>
       /\ call.pc = "done"
       /\ call.outcome = "returned"
       /\ call.result.draft_versions = approved.draft_versions
       /\ call.result.iteration_count = approved.iteration_count
       /\ call.result.current_draft_text = approved.current_draft_text
       /\ call.result.status # "paused_for_human"

C8_IterationCountMatchesDrafts ==
  \A r \in RunIds :
    RowsOf(store, r) # {} =>
      LET last == Before(Len(store) + 1, r)
          snap == store[last].state_snapshot
      IN
      store[last].agent_name \in StageNames \cup {"starter"} =>
        /\ snap.iteration_count = drafted[r]
        /\ Len(snap.draft_versions) = drafted[r]
        /\ \A j \in 1..Len(snap.draft_versions) : snap.draft_versions[j].version = j

\* C9: the feed never emits an event for the same row twice and emits its
\* events in the order in which their rows were appended.
C9_FeedEmitsEachOnceInOrder ==
  \A i, j \in 1..Len(feed.emitted) :
    i < j => feed.emitted[i] < feed.emitted[j]

\* The events the feed emitted for rows appended since it opened.
EmittedSinceOpen == SelectSeq(feed.emitted, LAMBDA id : id > feed.base)

\* C10: when the feed has polled between every two consecutive appends to
\* the run it observes, each append coming later on the clock than the one
\* before (the polling interval is shorter than the interval between
\* appends), the events it has emitted for the rows appended since it
\* opened are exactly those rows, one event each, in append order: all of
\* them once it has polled after the last append, all but the last before.
\* For appends c1, c2, c3 that is three events, none skipped.
C10_FeedSkipsNothingWhenSpaced ==
  feed.spaced =>
    IF feed.polled
    THEN EmittedSinceOpen = feed.log
    ELSE EmittedSinceOpen = SubSeq(feed.log, 1, Len(feed.log) - 1)

C10_Witness ==
  /\ feed.spaced
  /\ feed.polled
  /\ Len(feed.log) = 3
  /\ EmittedSinceOpen = feed.log
  /\ NamesOf(feed.log) = <<"human", "Draftsman", "SafetyGuardian">>

\* C11: the table is append-only: no step of any operation removes a row
\* or changes the id, run_id, agent_name, note or state_snapshot of a row
\* already stored; a step only adds rows after the ones that are there, so
\* each run's earlier rows are a prefix of its later ones.
C11_StoreAppendOnly ==
  [][/\ Len(store') >= Len(store)
     /\ \A i \in 1..Len(store) :
          /\ store'[i].id = store[i].id
          /\ store'[i].run_id = store[i].run_id
          /\ store'[i].agent_name = store[i].agent_name
          /\ store'[i].note = store[i].note
          /\ store'[i].state_snapshot = store[i].state_snapshot]_vars

C11_Witness ==
  /\ feed.emitted # <<>>
  /\ \E w \in Workers :
       /\ calls[w].op = "approve"
       /\ calls[w].pc = "done"
       /\ calls[w].human # 0
       /\ Len(calls[w].appended) = 4
       /\ store[calls[w].human].state_snapshot.iteration_count = 1
       /\ calls[w].state.iteration_count = 2

\* The run's rows in the order in which they were appended.
CreationOrder(run_id) ==
  LET RECURSIVE Upto(_)
      Upto(n) == IF n = 0 THEN <<>>
                 ELSE IF store[n].run_id = run_id THEN Append(Upto(n - 1), n)
                 ELSE Upto(n - 1)
  IN Upto(Len(store))

\* C12: latest(run_id) is the most recently appended row of the run, absent
\* exactly when the run has no row, and all(run_id) is the run's rows in
\* the order of their creation, equal timestamps included.
C12_LatestIsLastAppended ==
  \A r \in RunIds :
    /\ load_last_checkpoint(store, r)
         = {IF RowsOf(store, r) = {} THEN 0 ELSE Last(CreationOrder(r))}
    /\ list_checkpoints(store, r) = {CreationOrder(r)}

\* C13: the state_snapshot of a failure row (note "<Si> error: ...") has
\* status error.
C13_FailureRowHasStatusError ==
  \A i \in 1..Len(store) :
    (Len(store[i].note) = 2 /\ store[i].note[2] = "error")
      => store[i].state_snapshot.status = "error"

\* The status changes the claim lists.
ListedTransition(a, b) ==
  \/ b = "error"
  \/ a = "running" /\ b \in {"running", "paused_for_human"}
  \/ a = "paused_for_human" /\ b = "approved_by_human"
  \/ a = "approved_by_human" /\ b = "running"

\* C14: along the history of every run the status of consecutive rows is
\* either the same (a row that is no stage row may repeat it) or changes
\* along a listed transition; no stage row carries approved_by_human and
\* no row with paused_for_human follows one with approved_by_human.
C14_StatusTransitions ==
  \A i \in 1..Len(store) :
    LET cur == store[i].state_snapshot.status
        p == Before(i, store[i].run_id)
        prev == store[p].state_snapshot.status
    IN
    /\ store[i].agent_name \in StageNames => cur # "approved_by_human"
    /\ p # 0 =>
         /\ cur # prev => ListedTransition(prev, cur)
         /\ ~(prev = "approved_by_human" /\ cur = "paused_for_human")

\* C15: whichever backend is bound, a call whose engine methods all
\* succeeded leaves the same sequence of stage names and the same final
\* status as the sequential executor does: start_run the rows starter,
\* Draftsman, SafetyGuardian, ClinicalCritic, supervisor with status
\* paused_for_human, resume_run one row per stage after the one the loaded
\* row is named after.
C15_BackendsIndistinguishable ==
  \A w \in Workers :
    LET call == calls[w] IN
    (call.pc = "done" /\ call.outcome = "returned" /\ call.engine # "raise") =>
      /\ call.op = "start_run" =>
           /\ NamesOf(call.appended) = <<"starter">> \o StageSequence
           /\ call.appended # <<>>
           /\ store[Last(call.appended)].state_snapshot.status = "paused_for_human"
      /\ call.op = "resume_run" =>
           /\ call.cp # 0
           /\ NamesOf(call.appended)
                = SubSeq(StageSequence, StartIdx(store[call.cp].agent_name),
                         Len(StageSequence))

\* C16: a call of the adapter whose engine method raised is carried out by
\* the sequential executor: it ends as that executor's call ends, and the
\* rows it appended are the starter row (start_run) followed by one row for
\* every stage it executed, named after the stage.
C16_EngineFailureDelegated ==
  \A w \in Workers :
    LET call == calls[w] IN
    call.engine = "raise" =>
      /\ call.mode \in {"start", "resume"}
      /\ call.pc = "done" =>
           /\ call.outcome \in {"returned", "raised", "run not found"}
           /\ NamesOf(call.appended)
                = (IF call.mode = "start" THEN <<"starter">> ELSE <<>>)
                    \o call.executed
           /\ AppendedFor(call.appended, call.run)

\* The environment lets the probe and all four registrations go through.
EngineUsable(env) ==
  /\ env.importable
  /\ env.shape # "none"
  /\ ~env.ctor_raises
  /\ env.accepts = Len(StageSequence)

\* C17: the construction of the Orchestrator always yields one of the two
\* backends, and when no candidate shape is present or an import, a
\* constructor or a registration fails it yields the sequential executor:
\* no call then enters the adapter or the engine, and every row is one the
\* sequential executor or a handler writes.
C17_ConstructionFallsBack ==
  /\ Orchestrator \in {"FallbackGraph", "LangGraphSDKWrapper"}
  /\ ~EngineUsable(sdk.env) =>
       /\ Orchestrator = "FallbackGraph"
       /\ \A w \in Workers :
            /\ calls[w].mode # "sdk"
            /\ calls[w].engine = "none"
            /\ calls[w].sdk_run = UnknownRun
       /\ \A i \in 1..Len(store) :
            /\ store[i].agent_name
                 \in {"starter", "human", "summary_agent"} \cup StageNames
            /\ store[i].agent_name = "starter" => store[i].note = <<"run started">>

C17_Witness ==
  /\ sdk.env.importable
  /\ sdk.env.shape = "graph"
  /\ ~sdk.env.ctor_raises
  /\ sdk.env.accepts = Len(StageSequence) - 1
  /\ sdk.env.has_resume
  /\ \E w \in Workers :
       /\ calls[w].op = "start_run"
       /\ calls[w].pc = "done"
       /\ calls[w].outcome = "returned"
       /\ NamesOf(calls[w].appended) = <<"starter">> \o StageSequence

\* C18: however the steps of calls on two different runs interleave, every
\* row a call appends carries the call's own run id and a state of that
\* run, and a start_run, whose run no other call can name before it ends,
\* leaves what it leaves when it runs alone: rows consecutive within the
\* run, the starter row of its intent and one row per stage executed, each
\* stage applied to the state of the run's previous row.
C18_RunsIndependent ==
  /\ \A i \in 1..Len(store) : store[i].state_snapshot.run_id = store[i].run_id
  /\ \A w \in Workers :
       LET call == calls[w] IN
       /\ \A k \in 1..Len(call.appended) : store[call.appended[k]].run_id = call.run
       /\ call.mode = "start" =>
            /\ AppendedFor(call.appended, call.run)
            /\ NamesOf(call.appended) = <<"starter">> \o call.executed
            /\ store[call.appended[1]].state_snapshot
                 = InitialState(call.run, call.state.intent_text, TRUE)
            /\ \A k \in 2..Len(call.appended) :
                 LET prev == store[call.appended[k - 1]].state_snapshot
                     cur == store[call.appended[k]].state_snapshot
                     name == store[call.appended[k]].agent_name
                 IN \E out \in Texts, fail \in FailPoints(name) :
                      cur = RunNode(name, prev, out, fail).state

C18_Witness ==
  /\ \A w \in Workers :
       /\ calls[w].mode = "start"
       /\ calls[w].pc = "done"
       /\ calls[w].outcome = "returned"
  /\ calls[1].run # calls[2].run
  /\ calls[1].state.intent_text # calls[2].state.intent_text
  /\ \E i, j, k \in 1..Len(store) :
       /\ i < j /\ j < k
       /\ store[i].run_id = store[k].run_id
       /\ store[j].run_id # store[i].run_id

\* C19: at no time are two calls in their loop over the stages for the
\* same run after loading the same row as its latest, each having executed
\* the first stage after it.
C19_NoTwoExecutorsOnOneRun ==
  \A w1, w2 \in Workers :
    (/\ w1 # w2
     /\ calls[w1].run = calls[w2].run
     /\ calls[w1].pc = "nodes"
     /\ calls[w2].pc = "nodes")
    => ~(/\ calls[w1].cp = calls[w2].cp
         /\ calls[w1].executed # <<>>
         /\ calls[w2].executed # <<>>
         /\ calls[w1].executed[1] = calls[w2].executed[1])

IsPrefix(pre, seq) ==
  /\ Len(pre) <= Len(seq)
  /\ SubSeq(seq, 1, Len(pre)) = pre

\* C21: along the rows of every run in the order of their creation,
\* iteration_count never decreases, the draft_versions of a row begin with
\* the draft_versions of the run's previous row, and the version numbers of
\* a row are strictly increasing from 1.
C21_DraftHistoryGrows ==
  \A i \in 1..Len(store) :
    LET snap == store[i].state_snapshot
        p == Before(i, store[i].run_id)
    IN
    /\ \A j \in 1..Len(snap.draft_versions) :
         /\ snap.draft_versions[j].version >= 1
         /\ j > 1 => snap.draft_versions[j - 1].version < snap.draft_versions[j].version
    /\ snap.draft_versions # <<>> => snap.draft_versions[1].version = 1
    /\ p # 0 =>
         /\ store[p].state_snapshot.iteration_count <= snap.iteration_count
         /\ IsPrefix(store[p].state_snapshot.draft_versions, snap.draft_versions)

\* C22: a supervisor row with status paused_for_human is appended to a run
\* only after the run has, for each of Draftsman, SafetyGuardian and
\* ClinicalCritic, a row of that stage that is no failure row.
C22_NoFailedStageSkipped ==
  \A i \in 1..Len(store) :
    (/\ store[i].agent_name = "supervisor"
     /\ store[i].state_snapshot.status = "paused_for_human")
    => \A k \in 1..(Len(StageSequence) - 1) :
         \E j \in 1..(i - 1) :
           /\ store[j].run_id = store[i].run_id
           /\ store[j].agent_name = StageSequence[k]
           /\ store[j].note \in {<<StageSequence[k], "completed">>,
                                 <<StageSequence[k], "resumed/completed">>}

\* C23: a human row follows, in its run, a row with status
\* paused_for_human: approve appends nothing to a run in any other status.
C23_ApprovalOnlyWhenPaused ==
  \A i \in 1..Len(store) :
    store[i].agent_name = "human" =>
      LET p == Before(i, store[i].run_id) IN
      /\ p # 0
      /\ store[p].state_snapshot.status = "paused_for_human"

\* C24: a start_run call that has ended wrote rows under one run id only,
\* the one it returns: a run id under which the adapter saved its starter
\* row before the engine call is the id of the call's run.
C24_StartRunWritesOneRun ==
  \A w \in Workers :
    LET call == calls[w] IN
    (call.op = "start_run" /\ call.pc = "done" /\ call.sdk_run # UnknownRun)
      => \/ call.sdk_run = call.run
         \/ RowsOf(store, call.sdk_run) = {}
====
